---- MODULE Spec2Model ----
(***************************************************************************)
(* The booking server of the driving-school portal                         *)
(* (driving-backend/server.js): the relational bookings table, the         *)
(* in-memory fallback maps with their JSON files, and the four request     *)
(* handlers /admin/daily, POST /admin/book, DELETE /admin/book and         *)
(* /admin/suspend.  A handler runs without interruption up to its next     *)
(* awaited store query; each awaited query is one step of the request.     *)
(* The pages of the browser (StudentBooking.jsx, AdminPanel.jsx) reach the  *)
(* server through services/api.js; a handler of a page runs up to its      *)
(* awaited api call, and what follows the call is a later step.            *)
(***************************************************************************)
EXTENDS Integers, Sequences, FiniteSets, TLC

VARIABLES
    DB_CONNECTED,          \* server.js:149, set once by initDB
    bookings,              \* the relational table "bookings", rows in table order
    inMemoryBookings,      \* server.js:20  date -> list of {hour, student_name, permanent}
    inMemorySuspensions,   \* server.js:21  date -> Set(hour)
    bookingsFile,          \* data/bookings.json as last written by persistBookings
    suspensionsFile,       \* data/suspensions.json as last written by persistSuspensions
    reqs,                  \* the requests being handled: handler position, locals, response
    received,              \* number of requests received so far
    StudentBooking,        \* StudentBooking.jsx: refs and state of the mounted component
    AdminPanel             \* AdminPanel.jsx: refs and state of the mounted component

vars == <<DB_CONNECTED, bookings, inMemoryBookings, inMemorySuspensions,
          bookingsFile, suspensionsFile, reqs, received, StudentBooking, AdminPanel>>

\* The pages of the browser; a request handler of the server leaves them alone.
frontend == <<StudentBooking, AdminPanel>>

stores == <<bookings, inMemoryBookings, inMemorySuspensions, bookingsFile, suspensionsFile>>

\* ------------------------------------------------------------------ bounds
MaxRequests == 5
MaxInFlight == 2
MaxRows == 5
MaxCalls == 2
MaxFetches == 3

\* ------------------------------------------------------------------ inputs
Dates == {"2025-01-06", "2025-01-07"}
Students == {"Alice", "Bob", "Carol", "Dave", "Eve"}
HourInputs == {"9", "12"}

\* Request bodies.  "" stands for a field that is missing from the body.
\* Five students ask for the same hour (one more than its capacity); the
\* hour comes unpadded ("9") and padded ("09"); "12" is the theory hour.
BookBodies ==
    [date : {"2025-01-06"}, hour : {"9"}, student_name : Students, permanent : {FALSE}]
    \cup [date : {"2025-01-06"}, hour : {"09"}, student_name : {"Alice"}, permanent : {TRUE}]
    \cup [date : {"2025-01-06"}, hour : {"12"}, student_name : {"Alice"}, permanent : {FALSE}]
    \cup [date : {"2025-01-07"}, hour : {"9"}, student_name : {"Bob"}, permanent : {TRUE}]
    \cup [date : {"2025-01-06"}, hour : {"9"}, student_name : {""}, permanent : {FALSE}]

DeleteBodies ==
    [date : {"2025-01-06"}, hour : {"9"}, student_name : {"Alice", "Bob"}]
    \cup [date : {"2025-01-06"}, hour : {"12"}, student_name : {"Alice"}]
    \cup [date : {"2025-01-07"}, hour : {"09"}, student_name : {"Bob"}]
    \cup [date : {"2025-01-06"}, hour : {""}, student_name : {"Alice"}]

SuspendBodies ==
    [date : {"2025-01-06"}, slotId : HourInputs, action : {"suspend", "unsuspend"}]
    \cup [date : {"2025-01-07"}, slotId : {"9"}, action : {"suspend"}]
    \cup [date : {"2025-01-06"}, slotId : {"9"}, action : {""}]

DailyQueries == [date : Dates \cup {""}]

\* Bodies of the concurrent requests on one slot: two students, each of whom
\* may ask twice.
ConcBookBodies ==
    [date : {"2025-01-06"}, hour : {"9"}, student_name : {"Alice", "Bob"}, permanent : {FALSE}]

ConcDeleteBodies ==
    [date : {"2025-01-06"}, hour : {"9"}, student_name : {"Alice"}]

ConcSuspendBodies ==
    [date : {"2025-01-06"}, slotId : {"9"}, action : {"suspend", "unsuspend"}]

\* Bodies of the CreateBooking requests that race for the seats of one slot:
\* five students for its four seats.
RaceBookBodies ==
    [date : {"2025-01-06"}, hour : {"9"}, student_name : Students, permanent : {FALSE}]

\* Bodies of the SetSuspension(suspend) requests that race with a CreateBooking.
RaceSuspendBodies ==
    [date : {"2025-01-06"}, slotId : {"9"}, action : {"suspend"}]

\* Bodies with one field missing, for each handler and each of its fields.
InvalidBookBodies ==
    { [date |-> "", hour |-> "9", student_name |-> "Alice", permanent |-> FALSE],
      [date |-> "2025-01-06", hour |-> "", student_name |-> "Alice", permanent |-> FALSE],
      [date |-> "2025-01-06", hour |-> "9", student_name |-> "", permanent |-> FALSE] }

InvalidDeleteBodies ==
    { [date |-> "", hour |-> "9", student_name |-> "Alice"],
      [date |-> "2025-01-06", hour |-> "", student_name |-> "Alice"],
      [date |-> "2025-01-06", hour |-> "9", student_name |-> ""] }

InvalidSuspendBodies ==
    { [date |-> "", slotId |-> "9", action |-> "unsuspend"],
      [date |-> "2025-01-06", slotId |-> "", action |-> "unsuspend"],
      [date |-> "2025-01-06", slotId |-> "9", action |-> ""] }

\* Bodies of CreateBooking requests for an hour of the slot list and for an
\* hour outside it.
OutsideBookBodies ==
    [date : {"2025-01-06"}, hour : {"9", "18"}, student_name : {"Alice", "Bob"},
     permanent : {FALSE}]

\* ------------------------------------------------------------------ utilities
\* server.js:84
HOURS == <<"07", "08", "09", "10", "11", "12", "13", "14", "15", "16", "17">>

\* String(x).padStart(2, "0")
padStartNone(s) == s

padStart2(s) == IF Len(s) = 0 THEN "00" ELSE IF Len(s) = 1 THEN "0" \o s ELSE s

\* hourNorm, which the handlers compute once the body has passed validation
HourNorm(hour) == IF hour = "" THEN "" ELSE padStart2(hour)

\* !x for a string field of a request body
MissingNever(s) == FALSE

Missing(s) == s = ""

\* rows.filter(r => String(r.hour).padStart(2,"0") === hour)
RowsOfHour(rows, hour) ==
    LET Test(r) == padStart2(r.hour) = hour IN SelectSeq(rows, Test)

\* students.map(s => s.student_name)
Names(rows) == [k \in 1..Len(rows) |-> rows[k].student_name]

\* students.filter(s => s.permanent)
PermanentRows(rows) ==
    LET Test(r) == r.permanent IN SelectSeq(rows, Test)

\* A property key that JavaScript treats as an integer index: a canonical
\* decimal numeral, so no leading zero.  ("07" is an ordinary string key.)
IsIntegerKey(k) == Len(k) > 0 /\ (SubSeq(k, 1, 1) # "0" \/ k = "0")

\* The value of a decimal digit, and Number(k) of a numeral.
DigitValue(c) == CHOOSE d \in 0..9 : SubSeq("0123456789", d + 1, d + 1) = c

RECURSIVE HourNumber(_)
HourNumber(k) ==
    IF Len(k) = 0 THEN 0
    ELSE 10 * HourNumber(SubSeq(k, 1, Len(k) - 1)) + DigitValue(SubSeq(k, Len(k), Len(k)))

\* Object.entries order of an object whose keys were inserted in the order
\* of keys: the integer keys ascending, then the other keys in insertion order.
RECURSIVE SortedInsert(_, _)
SortedInsert(sorted, k) ==
    IF sorted = <<>> THEN <<k>>
    ELSE IF HourNumber(k) < HourNumber(Head(sorted)) THEN <<k>> \o sorted
    ELSE <<Head(sorted)>> \o SortedInsert(Tail(sorted), k)

RECURSIVE SortKeys(_)
SortKeys(keys) ==
    IF keys = <<>> THEN <<>> ELSE SortedInsert(SortKeys(Tail(keys)), Head(keys))

ObjectKeys(keys) ==
    LET IsInt(k) == IsIntegerKey(k)
        NotInt(k) == ~IsIntegerKey(k)
    IN SortKeys(SelectSeq(keys, IsInt)) \o SelectSeq(keys, NotInt)

\* server.js:86-105; suspended is inMemorySuspensions.get(date)?.has(hour) || false
computeSlotsOn(rows, date, suspensions) ==
    LET keys == ObjectKeys(HOURS)
        Slot(hour) ==
            LET students == RowsOfHour(rows, hour)
            IN [hour |-> hour,
                capacity |-> 4,
                booked |-> Len(students),
                available |-> IF 4 - Len(students) > 0 THEN 4 - Len(students) ELSE 0,
                students |-> Names(students),
                permanentStudents |-> Names(PermanentRows(students)),
                suspended |-> (date \in DOMAIN suspensions /\ hour \in suspensions[date])]
    IN [k \in 1..Len(keys) |-> Slot(keys[k])]

\* ------------------------------------------------------------------ requests
Slots == 1..MaxInFlight

NoResponse == [status |-> 0, success |-> FALSE, message |-> "", slots |-> <<>>]

Idle == [op |-> "none", pc |-> "idle", date |-> "", hourNorm |-> "", student_name |-> "",
         permanent |-> FALSE, action |-> "", res |-> NoResponse]

\* res.status(status).json({success, message, slots})
Respond(r, status, success, message, slots) ==
    [r EXCEPT !.pc = "done",
              !.res = [status |-> status, success |-> success, message |-> message,
                       slots |-> slots]]

Free(i) == reqs[i].pc \in {"idle", "done"}

\* One request at a time: the next one is received when none is being handled.
SeqReady(i) == i = 1 /\ \A j \in Slots : Free(j)

\* Concurrent requests: a request is received while others wait on the store.
ConcReady(i) == Free(i) /\ \A j \in Slots : j < i => ~Free(j)

\* SELECT hour, student_name, permanent FROM bookings WHERE date=$1
SelectByDate(date) ==
    LET Test(r) == r.date = date IN SelectSeq(bookings, Test)

\* SELECT student_name FROM bookings WHERE date=$1 AND hour=$2
SelectByDateHour(date, hour) ==
    LET Test(r) == r.date = date /\ r.hour = hour IN SelectSeq(bookings, Test)

\* inMemoryBookings.get(date) || []
MemoryRows(date) == IF date \in DOMAIN inMemoryBookings THEN inMemoryBookings[date] ELSE <<>>

\* computeSlots(rows, date) on the suspensions as they are now
computeSlotsBeforeInsert(rows, date) ==
    computeSlotsOn(IF rows = <<>> THEN rows ELSE SubSeq(rows, 1, Len(rows) - 1),
                   date, inMemorySuspensions)

computeSlots(rows, date) == computeSlotsOn(rows, date, inMemorySuspensions)

\* ------------------------------------------------------------------ the pages
\* StudentBooking.jsx:5-15: the component before its effect has run.  A ref
\* that holds a timer is TRUE while the timer is set; selectedSlot is <<>>
\* for null and <<slot>> for a slot; calls are the api calls not yet settled.
StudentBookingInit ==
    [mounted |-> FALSE, unloaded |-> FALSE, failuresRef |-> 0, intervalRef |-> FALSE,
     autoRefreshRef |-> FALSE, slots |-> <<>>, selectedSlot |-> <<>>, loading |-> FALSE,
     message |-> "", calls |-> <<>>]

\* AdminPanel.jsx:5-16: the component before its effect has run
AdminPanelInit ==
    [mounted |-> FALSE, failuresRef |-> 0, intervalRef |-> FALSE, slots |-> <<>>,
     modalOpen |-> FALSE, selectedSlotId |-> "", bookingLoading |-> FALSE,
     suspendDialog |-> [open |-> FALSE, slot |-> <<>>, action |-> ""],
     snackbar |-> "", calls |-> <<>>]

Init ==
    /\ DB_CONNECTED \in BOOLEAN
    /\ bookings = <<>>
    /\ inMemoryBookings = [d \in Dates |-> <<>>]
    /\ inMemorySuspensions = [d \in Dates |-> {}]
    /\ bookingsFile = [d \in Dates |-> <<>>]
    /\ suspensionsFile = [d \in Dates |-> {}]
    /\ reqs = [i \in Slots |-> Idle]
    /\ received = 0
    /\ StudentBooking = StudentBookingInit
    /\ AdminPanel = AdminPanelInit

\* server.js:23-46, 81: the server starts on what earlier runs left behind.
\* The table holds the first n of four students in hour 09 of one day, or
\* loadPersistedBookings reads them from bookings.json; the suspensions are
\* those read from suspensions.json, hour 09 suspended or not.
PersistedStudents == <<"Alice", "Bob", "Carol", "Dave">>

InitPersisted ==
    /\ DB_CONNECTED \in BOOLEAN
    /\ \E n \in 0..Len(PersistedStudents), dateSuspensions \in SUBSET {"09"} :
           LET rows == [k \in 1..n |-> [hour |-> "09",
                                        student_name |-> PersistedStudents[k],
                                        permanent |-> FALSE]]
               table == [k \in 1..n |-> [date |-> "2025-01-06", hour |-> "09",
                                         student_name |-> PersistedStudents[k],
                                         permanent |-> FALSE]]
           IN /\ bookings = IF DB_CONNECTED THEN table ELSE <<>>
              /\ inMemoryBookings =
                     [d \in Dates |-> IF ~DB_CONNECTED /\ d = "2025-01-06" THEN rows ELSE <<>>]
              /\ inMemorySuspensions =
                     [d \in Dates |-> IF d = "2025-01-06" THEN dateSuspensions ELSE {}]
    /\ bookingsFile = inMemoryBookings
    /\ suspensionsFile = inMemorySuspensions
    /\ reqs = [i \in Slots |-> Idle]
    /\ received = 0
    /\ StudentBooking = StudentBookingInit
    /\ AdminPanel = AdminPanelInit

\* server.js:23-46, 81: the server starts in in-memory mode on a bookings.json
\* and a suspensions.json of any content.  The bookings of one day are a list
\* of up to MaxRows rows, with hours written "9" and "09", the same student in
\* two hours, and more rows in an hour than its capacity.
LoadedRows ==
    { [hour |-> "9", student_name |-> "Alice", permanent |-> TRUE],
      [hour |-> "09", student_name |-> "Bob", permanent |-> FALSE],
      [hour |-> "10", student_name |-> "Alice", permanent |-> FALSE] }

LoadedLists == UNION {[1..n -> LoadedRows] : n \in 0..MaxRows}

InitLoaded ==
    /\ DB_CONNECTED = FALSE
    /\ bookings = <<>>
    /\ \E rows \in LoadedLists :
           inMemoryBookings = [d \in Dates |-> IF d = "2025-01-06" THEN rows ELSE <<>>]
    /\ \E dateSuspensions \in SUBSET {"09"} :
           inMemorySuspensions =
               [d \in Dates |-> IF d = "2025-01-06" THEN dateSuspensions ELSE {}]
    /\ bookingsFile = inMemoryBookings
    /\ suspensionsFile = inMemorySuspensions
    /\ reqs = [i \in Slots |-> Idle]
    /\ received = 0
    /\ StudentBooking = StudentBookingInit
    /\ AdminPanel = AdminPanelInit

\* ------------------------------------------------------------------ POST /admin/book
\* server.js:210  inMemorySuspensions.get(date)?.has(hourNorm)
IsSuspendedNever(date, hour) == FALSE

IsSuspended(date, hour) == date \in DOMAIN inMemorySuspensions /\ hour \in inMemorySuspensions[date]

\* server.js:234  existingRows.length >= 4
SlotFullOffByOne(existingRows) == Len(existingRows) > 4

SlotFull(existingRows) == Len(existingRows) >= 4

\* server.js:236  existingRows.find(r => r.student_name === student_name)
AlreadyBookedNever(existingRows, student_name) == FALSE

AlreadyBooked(existingRows, student_name) ==
    \E k \in 1..Len(existingRows) : existingRows[k].student_name = student_name

\* server.js:234-258, once existingRows is known
BookDecideDuplicateFirst(i, r, existingRows) ==
    IF AlreadyBooked(existingRows, r.student_name)
    THEN /\ reqs' = [reqs EXCEPT ![i] = Respond(r, 200, FALSE, "Student already booked", <<>>)]
         /\ UNCHANGED stores
    ELSE IF SlotFull(existingRows)
    THEN /\ reqs' = [reqs EXCEPT ![i] = Respond(r, 200, FALSE, "Slot full", <<>>)]
         /\ UNCHANGED stores
    ELSE IF DB_CONNECTED
    THEN /\ reqs' = [reqs EXCEPT ![i] = [r EXCEPT !.pc = "book_insert"]]
         /\ UNCHANGED stores
    ELSE LET dateList == Append(MemoryRows(r.date),
                                [hour |-> r.hourNorm, student_name |-> r.student_name,
                                 permanent |-> r.permanent])
         IN /\ inMemoryBookings' = [inMemoryBookings EXCEPT ![r.date] = dateList]
            /\ bookingsFile' = inMemoryBookings'
            /\ reqs' = [reqs EXCEPT ![i] =
                          Respond(r, 200, TRUE, "Booking confirmed",
                                  computeSlots(dateList, r.date))]
            /\ UNCHANGED <<bookings, inMemorySuspensions, suspensionsFile>>

BookDecide(i, r, existingRows) ==
    IF SlotFull(existingRows)
    THEN /\ reqs' = [reqs EXCEPT ![i] = Respond(r, 200, FALSE, "Slot full", <<>>)]
         /\ UNCHANGED stores
    ELSE IF AlreadyBooked(existingRows, r.student_name)
    THEN /\ reqs' = [reqs EXCEPT ![i] = Respond(r, 200, FALSE, "Student already booked", <<>>)]
         /\ UNCHANGED stores
    ELSE IF DB_CONNECTED
    THEN \* INSERT issued, awaited
         /\ reqs' = [reqs EXCEPT ![i] = [r EXCEPT !.pc = "book_insert"]]
         /\ UNCHANGED stores
    ELSE LET dateList == Append(MemoryRows(r.date),
                                [hour |-> r.hourNorm, student_name |-> r.student_name,
                                 permanent |-> r.permanent])
         IN /\ inMemoryBookings' = [inMemoryBookings EXCEPT ![r.date] = dateList]
            /\ bookingsFile' = inMemoryBookings'
            /\ reqs' = [reqs EXCEPT ![i] =
                          Respond(r, 200, TRUE, "Booking confirmed",
                                  computeSlots(dateList, r.date))]
            /\ UNCHANGED <<bookings, inMemorySuspensions, suspensionsFile>>

\* server.js:202-232: the handler up to its first awaited query
BookReceive(i, body) ==
    /\ received < MaxRequests
    /\ received' = received + 1
    /\ UNCHANGED DB_CONNECTED
    /\ LET r == [Idle EXCEPT !.op = "book", !.date = body.date,
                             !.hourNorm = HourNorm(body.hour),
                             !.student_name = body.student_name,
                             !.permanent = body.permanent]
       IN IF Missing(body.date) \/ Missing(body.hour) \/ Missing(body.student_name)
          THEN /\ reqs' = [reqs EXCEPT ![i] = Respond(r, 400, FALSE, "Missing fields", <<>>)]
               /\ UNCHANGED stores
          ELSE IF IsSuspended(r.date, r.hourNorm)
          THEN /\ reqs' = [reqs EXCEPT ![i] = Respond(r, 200, FALSE, "Slot is suspended", <<>>)]
               /\ UNCHANGED stores
          ELSE IF DB_CONNECTED
          THEN /\ reqs' = [reqs EXCEPT ![i] = [r EXCEPT !.pc = "book_existing"]]
               /\ UNCHANGED stores
          ELSE BookDecide(i, r, RowsOfHour(MemoryRows(r.date), r.hourNorm))

\* server.js:216-237: the SELECT of the slot's students returns (ok) or throws
BookExisting(i, ok) ==
    /\ reqs[i].pc = "book_existing"
    /\ UNCHANGED <<DB_CONNECTED, received>>
    /\ LET r == reqs[i]
           existingRows == IF ok THEN SelectByDateHour(r.date, r.hourNorm)
                           ELSE RowsOfHour(MemoryRows(r.date), r.hourNorm)
       IN BookDecide(i, r, existingRows)

\* UNIQUE(date, hour, student_name) of the bookings table
UniqueViolationNever(row) == FALSE

UniqueViolation(row) ==
    \E k \in 1..Len(bookings) :
        /\ bookings[k].date = row.date
        /\ bookings[k].hour = row.hour
        /\ bookings[k].student_name = row.student_name

\* server.js:239-256: the INSERT returns or throws; then the day's rows are queried
BookInsert(i, ok) ==
    /\ reqs[i].pc = "book_insert"
    /\ UNCHANGED <<DB_CONNECTED, received, inMemoryBookings, inMemorySuspensions,
                   bookingsFile, suspensionsFile>>
    /\ LET r == reqs[i]
           row == [date |-> r.date, hour |-> r.hourNorm, student_name |-> r.student_name,
                   permanent |-> r.permanent]
       IN IF ok /\ ~UniqueViolation(row)
          THEN /\ bookings' = Append(bookings, row)
               /\ reqs' = [reqs EXCEPT ![i] = [r EXCEPT !.pc = "book_rows"]]
          ELSE /\ reqs' = [reqs EXCEPT ![i] = Respond(r, 500, FALSE, "Server error", <<>>)]
               /\ UNCHANGED bookings

\* server.js:251-262: the SELECT of the day's rows returns or throws
BookRows(i, ok) ==
    /\ reqs[i].pc = "book_rows"
    /\ UNCHANGED <<DB_CONNECTED, received, stores>>
    /\ LET r == reqs[i]
       IN IF ok
          THEN reqs' = [reqs EXCEPT ![i] =
                          Respond(r, 200, TRUE, "Booking confirmed",
                                  computeSlots(SelectByDate(r.date), r.date))]
          ELSE reqs' = [reqs EXCEPT ![i] = Respond(r, 500, FALSE, "Server error", <<>>)]

\* ------------------------------------------------------------------ DELETE /admin/book
\* dateList.filter(b => !(hour === hourNorm && b.student_name === student_name))
WithoutBookingNever(rows, hour, student_name) == rows

WithoutBookingOfHour(rows, hour, student_name) ==
    LET Test(b) == ~(padStart2(b.hour) = hour) IN SelectSeq(rows, Test)

WithoutBooking(rows, hour, student_name) ==
    LET Test(b) == ~(padStart2(b.hour) = hour /\ b.student_name = student_name)
    IN SelectSeq(rows, Test)

\* server.js:266-299: the handler up to its first awaited query
DeleteReceive(i, body) ==
    /\ received < MaxRequests
    /\ received' = received + 1
    /\ UNCHANGED DB_CONNECTED
    /\ LET r == [Idle EXCEPT !.op = "delete", !.date = body.date,
                             !.hourNorm = HourNorm(body.hour),
                             !.student_name = body.student_name]
       IN IF Missing(body.date) \/ Missing(body.hour) \/ Missing(body.student_name)
          THEN /\ reqs' = [reqs EXCEPT ![i] = Respond(r, 400, FALSE, "Missing fields", <<>>)]
               /\ UNCHANGED stores
          ELSE IF DB_CONNECTED
          THEN /\ reqs' = [reqs EXCEPT ![i] = [r EXCEPT !.pc = "delete_delete"]]
               /\ UNCHANGED stores
          ELSE LET dateList == WithoutBooking(MemoryRows(r.date), r.hourNorm, r.student_name)
               IN /\ inMemoryBookings' = [inMemoryBookings EXCEPT ![r.date] = dateList]
                  /\ bookingsFile' = inMemoryBookings'
                  /\ reqs' = [reqs EXCEPT ![i] =
                                Respond(r, 200, TRUE, "Deleted booking",
                                        computeSlots(dateList, r.date))]
                  /\ UNCHANGED <<bookings, inMemorySuspensions, suspensionsFile>>

\* server.js:277-280: the DELETE returns or throws; then the day's rows are queried
DeleteExecute(i, ok) ==
    /\ reqs[i].pc = "delete_delete"
    /\ UNCHANGED <<DB_CONNECTED, received, inMemoryBookings, inMemorySuspensions,
                   bookingsFile, suspensionsFile>>
    /\ LET r == reqs[i]
           Keep(b) == ~(b.date = r.date /\ b.hour = r.hourNorm
                        /\ b.student_name = r.student_name)
       IN IF ok
          THEN /\ bookings' = SelectSeq(bookings, Keep)
               /\ reqs' = [reqs EXCEPT ![i] = [r EXCEPT !.pc = "delete_rows"]]
          ELSE /\ reqs' = [reqs EXCEPT ![i] = Respond(r, 500, FALSE, "Server error", <<>>)]
               /\ UNCHANGED bookings

\* server.js:292-303: the SELECT of the day's rows returns or throws
DeleteRows(i, ok) ==
    /\ reqs[i].pc = "delete_rows"
    /\ UNCHANGED <<DB_CONNECTED, received, stores>>
    /\ LET r == reqs[i]
       IN IF ok
          THEN reqs' = [reqs EXCEPT ![i] =
                          Respond(r, 200, TRUE, "Deleted booking",
                                  computeSlots(SelectByDate(r.date), r.date))]
          ELSE reqs' = [reqs EXCEPT ![i] = Respond(r, 500, FALSE, "Server error", <<>>)]

\* ------------------------------------------------------------------ POST /admin/suspend
\* server.js:330  existingStudents.length > 0
SlotOccupiedWhenFull(existingStudents) == Len(existingStudents) >= 4

SlotOccupied(existingStudents) == Len(existingStudents) > 0

\* server.js:344-348  dateSuspensions.add(hourNorm) / dateSuspensions.delete(hourNorm)
ApplySuspensionToggle(dateSuspensions, action, hour) ==
    IF action = "suspend" THEN dateSuspensions \cup {hour}
    ELSE IF hour \in dateSuspensions THEN dateSuspensions \ {hour}
    ELSE dateSuspensions \cup {hour}

ApplySuspensionAddOnly(dateSuspensions, action, hour) ==
    IF action = "suspend" THEN dateSuspensions \cup {hour} ELSE dateSuspensions

ApplySuspension(dateSuspensions, action, hour) ==
    IF action = "suspend" THEN dateSuspensions \cup {hour}
    ELSE IF action = "unsuspend" THEN dateSuspensions \ {hour}
    ELSE dateSuspensions

\* server.js:330-355, once existingStudents is known
SuspendDecide(i, r, existingStudents) ==
    IF r.action = "suspend" /\ SlotOccupied(existingStudents)
    THEN /\ reqs' = [reqs EXCEPT ![i] =
                       Respond(r, 200, FALSE, "Cannot suspend slot with existing students", <<>>)]
         /\ UNCHANGED stores
    ELSE LET dateSuspensions ==
                 ApplySuspension(inMemorySuspensions[r.date], r.action, r.hourNorm)
         IN /\ inMemorySuspensions' = [inMemorySuspensions EXCEPT ![r.date] = dateSuspensions]
            /\ suspensionsFile' = inMemorySuspensions'
            /\ reqs' = [reqs EXCEPT ![i] =
                          Respond(r, 200, TRUE, "Slot " \o r.action \o "ed successfully", <<>>)]
            /\ UNCHANGED <<bookings, inMemoryBookings, bookingsFile>>

\* server.js:307-328: the handler up to its first awaited query
SuspendReceive(i, body) ==
    /\ received < MaxRequests
    /\ received' = received + 1
    /\ UNCHANGED DB_CONNECTED
    /\ LET r == [Idle EXCEPT !.op = "suspend", !.date = body.date,
                             !.hourNorm = HourNorm(body.slotId),
                             !.action = body.action]
       IN IF Missing(body.slotId) \/ Missing(body.action) \/ Missing(body.date)
          THEN /\ reqs' = [reqs EXCEPT ![i] = Respond(r, 400, FALSE, "Missing fields", <<>>)]
               /\ UNCHANGED stores
          ELSE IF r.action = "suspend" /\ DB_CONNECTED
          THEN /\ reqs' = [reqs EXCEPT ![i] = [r EXCEPT !.pc = "suspend_existing"]]
               /\ UNCHANGED stores
          ELSE SuspendDecide(i, r, RowsOfHour(MemoryRows(r.date), r.hourNorm))

\* server.js:319-323: the SELECT of the slot's students returns or throws
SuspendExisting(i, ok) ==
    /\ reqs[i].pc = "suspend_existing"
    /\ UNCHANGED <<DB_CONNECTED, received>>
    /\ LET r == reqs[i]
       IN IF ok
          THEN SuspendDecide(i, r, SelectByDateHour(r.date, r.hourNorm))
          ELSE /\ reqs' = [reqs EXCEPT ![i] = Respond(r, 500, FALSE, "Server error", <<>>)]
               /\ UNCHANGED stores

\* ------------------------------------------------------------------ GET /admin/daily
\* server.js:174-193: the handler up to its awaited query
DailyReceive(i, query) ==
    /\ received < MaxRequests
    /\ received' = received + 1
    /\ UNCHANGED <<DB_CONNECTED, stores>>
    /\ LET r == [Idle EXCEPT !.op = "daily", !.date = query.date]
       IN IF Missing(query.date)
          THEN reqs' = [reqs EXCEPT ![i] = Respond(r, 400, FALSE, "Missing date", <<>>)]
          ELSE IF DB_CONNECTED
          THEN reqs' = [reqs EXCEPT ![i] = [r EXCEPT !.pc = "daily_rows"]]
          ELSE reqs' = [reqs EXCEPT ![i] =
                          Respond(r, 200, TRUE, "", computeSlots(MemoryRows(r.date), r.date))]

\* server.js:182-194: the SELECT returns, or throws and the in-memory rows are used
DailyRows(i, ok) ==
    /\ reqs[i].pc = "daily_rows"
    /\ UNCHANGED <<DB_CONNECTED, received, stores>>
    /\ LET r == reqs[i]
           rows == IF ok THEN SelectByDate(r.date) ELSE MemoryRows(r.date)
       IN reqs' = [reqs EXCEPT ![i] = Respond(r, 200, TRUE, "", computeSlots(rows, r.date))]

\* ------------------------------------------------------------------ services/api.js
\* new Date().toISOString().split('T')[0]
Today == "2025-01-06"

\* The hours of the grid a user of the pages clicks on.
FrontendHours == {"09"}

\* The names typed into the name inputs.
FrontendNames == {"Alice"}

\* api.js:4-184: the methods of class DrivingSchoolAPI
DrivingSchoolAPI == {"clearAuthData", "request", "getSlots", "bookSlot", "deleteBooking"}

\* api.js:65-98: request() throws without the answer of a handler: a failed
\* fetch, or status 431
FetchErrors == {"431", "network"}

\* api.js:136-141: the objects getSlots makes of the slots of the answer
getSlots(data) ==
    [k \in 1..Len(data) |->
        [id |-> data[k].hour, hour |-> data[k].hour,
         capacity |-> IF data[k].capacity = 0 THEN 4 ELSE data[k].capacity,
         students |-> data[k].students]]

\* api.js:148-160: the body bookSlot posts to /admin/book
bookSlotBody(slotId, studentName) ==
    [date |-> Today, hour |-> padStart2(slotId), student_name |-> studentName,
     permanent |-> FALSE]

\* An api call of a component that has not settled: the method, whether the
\* interval callback made it, the request it is (0 when request() fails
\* before a handler answers, error saying how), and for AdminPanel the
\* arguments loadSlots was or will be called with.
Call(op, periodic, req, error, preserveSuspended, slots) ==
    [op |-> op, periodic |-> periodic, req |-> req, error |-> error,
     preserveSuspended |-> preserveSuspended, slots |-> slots]

Remove(calls, k) == SubSeq(calls, 1, k - 1) \o SubSeq(calls, k + 1, Len(calls))

\* The requests whose answers a page still waits for.
Awaited(i) ==
    \/ \E k \in DOMAIN StudentBooking.calls : StudentBooking.calls[k].req = i
    \/ \E k \in DOMAIN AdminPanel.calls : AdminPanel.calls[k].req = i

\* The request a new fetch becomes on the server.
Open(i) ==
    /\ received < MaxFetches
    /\ Free(i) /\ ~Awaited(i)
    /\ \A j \in Slots : j < i => ~(Free(j) /\ ~Awaited(j))

backend == <<DB_CONNECTED, stores, reqs, received>>

\* api.js:99-121: the promise of request() resolves on status 200
Resolved(c) == c.req > 0 /\ reqs[c.req].pc = "done" /\ reqs[c.req].res.status = 200

\* api.js:66-118: the error request() throws, "" while it has thrown none
ErrorOf(c) ==
    IF c.error # "" THEN c.error
    ELSE IF c.req > 0 /\ reqs[c.req].pc = "done" /\ reqs[c.req].res.status # 200 THEN "http"
    ELSE ""

\* ------------------------------------------------------------------ AvailabilityGrid
\* part_003:11-17
isSuspended(slot) == "suspended" \in DOMAIN slot /\ slot.suspended = TRUE

isDisabled(slot) ==
    LET booked == Len(slot.students)
        available == IF slot.capacity - booked > 0 THEN slot.capacity - booked ELSE 0
    IN available <= 0 \/ isSuspended(slot)

\* array.includes(name)
Includes(names, name) == \E j \in DOMAIN names : names[j] = name

\* ------------------------------------------------------------------ StudentBooking.jsx
\* StudentBooking.jsx:35-44
clearAllIntervals(sb) == [sb EXCEPT !.intervalRef = FALSE, !.autoRefreshRef = FALSE]

\* StudentBooking.jsx:47-53, api.js:129-133: loadSlots up to its awaited
\* request, which reaches /admin/daily or fails on the way; loading is the
\* value the caller leaves in the loading state
StudentLoadSlots(sb, periodic, loading) ==
    IF sb.autoRefreshRef
    THEN /\ StudentBooking' = sb
         /\ UNCHANGED backend
    ELSE /\ Len(sb.calls) < MaxCalls
         /\ \/ \E i \in Slots :
                 /\ Open(i)
                 /\ DailyReceive(i, [date |-> Today])
                 /\ StudentBooking' =
                        [sb EXCEPT !.loading = loading,
                                   !.calls = Append(@, Call("getSlots", periodic, i, "",
                                                            FALSE, <<>>))]
            \/ \E e \in FetchErrors :
                 /\ StudentBooking' =
                        [sb EXCEPT !.loading = loading,
                                   !.calls = Append(@, Call("getSlots", periodic, 0, e,
                                                            FALSE, <<>>))]
                 /\ UNCHANGED backend

\* StudentBooking.jsx:90-92, 104-107: the effect of the mounted component
StudentMount ==
    /\ ~StudentBooking.mounted /\ ~StudentBooking.unloaded
    /\ StudentLoadSlots([StudentBooking EXCEPT !.mounted = TRUE, !.intervalRef = TRUE],
                        FALSE, TRUE)
    /\ UNCHANGED AdminPanel

\* StudentBooking.jsx:93-102: the callback of setInterval
StudentTick ==
    /\ StudentBooking.mounted /\ ~StudentBooking.unloaded /\ StudentBooking.intervalRef
    /\ IF StudentBooking.failuresRef >= 3 \/ StudentBooking.autoRefreshRef
       THEN /\ StudentBooking' = [StudentBooking EXCEPT !.intervalRef = FALSE]
            /\ UNCHANGED backend
       ELSE StudentLoadSlots(StudentBooking, TRUE, TRUE)
    /\ UNCHANGED AdminPanel

\* StudentBooking.jsx:53-56, 86-88: api.getSlots() has returned
StudentLoadResolved(k) ==
    /\ ~StudentBooking.unloaded
    /\ k \in DOMAIN StudentBooking.calls
    /\ StudentBooking.calls[k].op = "getSlots"
    /\ Resolved(StudentBooking.calls[k])
    /\ StudentBooking' =
           [StudentBooking EXCEPT
               !.slots = getSlots(reqs[StudentBooking.calls[k].req].res.slots),
               !.failuresRef = 0,
               !.loading = FALSE,
               !.calls = Remove(@, k)]
    /\ UNCHANGED <<backend, AdminPanel>>

\* StudentBooking.jsx:56-88: api.getSlots() has thrown
StudentLoadRejected(k) ==
    /\ ~StudentBooking.unloaded
    /\ k \in DOMAIN StudentBooking.calls
    /\ StudentBooking.calls[k].op = "getSlots"
    /\ ErrorOf(StudentBooking.calls[k]) # ""
    /\ LET err == ErrorOf(StudentBooking.calls[k])
           counted == [StudentBooking EXCEPT !.failuresRef = @ + 1,
                                             !.loading = FALSE,
                                             !.calls = Remove(@, k)]
           shown == IF err = "431"
                    THEN [clearAllIntervals(counted) EXCEPT
                             !.autoRefreshRef = TRUE,
                             !.message = "Session issue detected"]
                    ELSE IF err = "network"
                    THEN [counted EXCEPT !.message = "Cannot reach backend"]
                    ELSE [counted EXCEPT !.message = "Error loading available slots"]
       IN StudentBooking' =
              IF shown.failuresRef >= 3 /\ shown.intervalRef
              THEN [clearAllIntervals(shown) EXCEPT !.message = "Stopped auto-refresh"]
              ELSE shown
    /\ UNCHANGED <<backend, AdminPanel>>

\* part_003:46-48, StudentBooking.jsx:110-114: a click on a slot of the grid
handleSlotSelect(k) ==
    /\ StudentBooking.mounted /\ ~StudentBooking.unloaded
    /\ k \in DOMAIN StudentBooking.slots
    /\ StudentBooking.slots[k].hour \in FrontendHours
    /\ ~isDisabled(StudentBooking.slots[k])
    /\ ~StudentBooking.autoRefreshRef
    /\ StudentBooking' = [StudentBooking EXCEPT !.selectedSlot = <<StudentBooking.slots[k]>>]
    /\ UNCHANGED <<backend, AdminPanel>>

\* StudentBooking.jsx:116-153, 240-246: a click on the enabled button, up to
\* the awaited api.bookSlot
handleBookSlot(name) ==
    /\ StudentBooking.mounted /\ ~StudentBooking.unloaded
    /\ StudentBooking.selectedSlot # <<>>
    /\ ~StudentBooking.loading /\ ~StudentBooking.autoRefreshRef
    /\ UNCHANGED AdminPanel
    /\ LET slot == StudentBooking.selectedSlot[1]
       IN IF Includes(slot.students, name)
          THEN /\ StudentBooking' =
                      [StudentBooking EXCEPT !.message = "You already have this slot booked."]
               /\ UNCHANGED backend
          ELSE IF Len(slot.students) >= slot.capacity
          THEN /\ StudentBooking' =
                      [StudentBooking EXCEPT !.message = "This slot is already fully booked."]
               /\ UNCHANGED backend
          ELSE /\ Len(StudentBooking.calls) < MaxCalls
               /\ \/ \E i \in Slots :
                       /\ Open(i)
                       /\ BookReceive(i, bookSlotBody(slot.hour, name))
                       /\ StudentBooking' =
                              [StudentBooking EXCEPT
                                  !.loading = TRUE,
                                  !.calls = Append(@, Call("bookSlot", FALSE, i, "",
                                                           FALSE, <<>>))]
                  \/ \E e \in FetchErrors :
                       /\ StudentBooking' =
                              [StudentBooking EXCEPT
                                  !.loading = TRUE,
                                  !.calls = Append(@, Call("bookSlot", FALSE, 0, e,
                                                           FALSE, <<>>))]
                       /\ UNCHANGED backend

\* StudentBooking.jsx:153-162, 181-183: api.bookSlot has returned
StudentBookResolved(k) ==
    /\ ~StudentBooking.unloaded
    /\ k \in DOMAIN StudentBooking.calls
    /\ StudentBooking.calls[k].op = "bookSlot"
    /\ Resolved(StudentBooking.calls[k])
    /\ UNCHANGED AdminPanel
    /\ LET result == reqs[StudentBooking.calls[k].req].res
           settled == [StudentBooking EXCEPT !.loading = FALSE, !.calls = Remove(@, k)]
       IN IF result.success
          THEN StudentLoadSlots([settled EXCEPT !.message = "Booking confirmed",
                                                !.selectedSlot = <<>>],
                                FALSE, FALSE)
          ELSE /\ StudentBooking' = [settled EXCEPT !.message = result.message]
               /\ UNCHANGED backend

\* StudentBooking.jsx:162-183: api.bookSlot has thrown
StudentBookRejected(k) ==
    /\ ~StudentBooking.unloaded
    /\ k \in DOMAIN StudentBooking.calls
    /\ StudentBooking.calls[k].op = "bookSlot"
    /\ ErrorOf(StudentBooking.calls[k]) # ""
    /\ LET err == ErrorOf(StudentBooking.calls[k])
           settled == [StudentBooking EXCEPT !.loading = FALSE, !.calls = Remove(@, k)]
       IN StudentBooking' =
              IF err = "431"
              THEN [clearAllIntervals(settled) EXCEPT
                       !.autoRefreshRef = TRUE,
                       !.message = "Session issue detected"]
              ELSE IF err = "network"
              THEN [settled EXCEPT !.message = "Network error while booking"]
              ELSE [settled EXCEPT !.message = "Error making booking"]
    /\ UNCHANGED <<backend, AdminPanel>>

\* StudentBooking.jsx:67-70, 169-171: the timeout of autoRefreshRef fires and
\* window.location.reload() ends the page with its component
StudentReload ==
    /\ StudentBooking.autoRefreshRef /\ ~StudentBooking.unloaded
    /\ StudentBooking' = [StudentBooking EXCEPT !.unloaded = TRUE]
    /\ UNCHANGED <<backend, AdminPanel>>

\* ------------------------------------------------------------------ AdminPanel.jsx
\* AdminPanel.jsx:41-46: the slots loadSlots stores
updatedSlots(data, preserveSuspended, slots) ==
    [k \in 1..Len(data) |->
        IF preserveSuspended /\ \E j \in DOMAIN slots : slots[j].id = data[k].id
        THEN LET existingSlot ==
                     slots[CHOOSE j \in DOMAIN slots : slots[j].id = data[k].id]
             IN IF "suspended" \in DOMAIN existingSlot
                THEN [id |-> data[k].id, hour |-> data[k].hour,
                      capacity |-> data[k].capacity, students |-> data[k].students,
                      suspended |-> existingSlot.suspended]
                ELSE data[k]
        ELSE data[k]]

\* AdminPanel.jsx:38-40, api.js:129-133: loadSlots up to its awaited request;
\* slots is the slots state of the render the called loadSlots belongs to
AdminLoadSlots(ap, periodic, preserveSuspended, slots) ==
    /\ Len(ap.calls) < MaxCalls
    /\ \/ \E i \in Slots :
            /\ Open(i)
            /\ DailyReceive(i, [date |-> Today])
            /\ AdminPanel' =
                   [ap EXCEPT !.calls = Append(@, Call("getSlots", periodic, i, "",
                                                       preserveSuspended, slots))]
       \/ \E e \in FetchErrors :
            /\ AdminPanel' =
                   [ap EXCEPT !.calls = Append(@, Call("getSlots", periodic, 0, e,
                                                       preserveSuspended, slots))]
            /\ UNCHANGED backend

\* AdminPanel.jsx:19-21, 29-30: the effect of the mounted component
AdminMount ==
    /\ ~AdminPanel.mounted
    /\ AdminLoadSlots([AdminPanel EXCEPT !.mounted = TRUE, !.intervalRef = TRUE],
                      FALSE, FALSE, <<>>)
    /\ UNCHANGED StudentBooking

\* AdminPanel.jsx:21-28: the callback of setInterval; its loadSlots is the
\* one of the first render, whose slots are []
AdminTick ==
    /\ AdminPanel.mounted /\ AdminPanel.intervalRef
    /\ IF AdminPanel.failuresRef >= 3
       THEN /\ AdminPanel' = [AdminPanel EXCEPT !.intervalRef = FALSE]
            /\ UNCHANGED backend
       ELSE AdminLoadSlots(AdminPanel, TRUE, TRUE, <<>>)
    /\ UNCHANGED StudentBooking

\* AdminPanel.jsx:40-49: api.getSlots() has returned
AdminLoadResolved(k) ==
    /\ k \in DOMAIN AdminPanel.calls
    /\ AdminPanel.calls[k].op = "getSlots"
    /\ Resolved(AdminPanel.calls[k])
    /\ LET c == AdminPanel.calls[k]
       IN AdminPanel' =
              [AdminPanel EXCEPT
                  !.slots = updatedSlots(getSlots(reqs[c.req].res.slots),
                                         c.preserveSuspended, c.slots),
                  !.failuresRef = 0,
                  !.calls = Remove(@, k)]
    /\ UNCHANGED <<backend, StudentBooking>>

\* AdminPanel.jsx:49-55: api.getSlots() has thrown
AdminLoadRejected(k) ==
    /\ k \in DOMAIN AdminPanel.calls
    /\ AdminPanel.calls[k].op = "getSlots"
    /\ ErrorOf(AdminPanel.calls[k]) # ""
    /\ AdminPanel' =
           [AdminPanel EXCEPT
               !.failuresRef = @ + 1,
               !.snackbar = IF ErrorOf(AdminPanel.calls[k]) = "431"
                            THEN "Request headers too large"
                            ELSE "Failed to load slots from server",
               !.calls = Remove(@, k)]
    /\ UNCHANGED <<backend, StudentBooking>>

\* AdminPanel.jsx:58-62, 181-188: a click on the enabled "+ Add" of a slot
openModal(k) ==
    /\ AdminPanel.mounted
    /\ k \in DOMAIN AdminPanel.slots
    /\ AdminPanel.slots[k].hour \in FrontendHours
    /\ ~isSuspended(AdminPanel.slots[k])
    /\ AdminPanel.slots[k].capacity - Len(AdminPanel.slots[k].students) > 0
    /\ AdminPanel' = [AdminPanel EXCEPT !.modalOpen = TRUE,
                                        !.selectedSlotId = AdminPanel.slots[k].id]
    /\ UNCHANGED <<backend, StudentBooking>>

\* AdminPanel.jsx:64-68, 209-211: a click on "Confirm Booking", up to the
\* awaited api.bookSlot
handleBooking(name) ==
    /\ AdminPanel.modalOpen /\ ~AdminPanel.bookingLoading
    /\ Len(AdminPanel.calls) < MaxCalls
    /\ UNCHANGED StudentBooking
    /\ \/ \E i \in Slots :
            /\ Open(i)
            /\ BookReceive(i, bookSlotBody(AdminPanel.selectedSlotId, name))
            /\ AdminPanel' =
                   [AdminPanel EXCEPT
                       !.bookingLoading = TRUE,
                       !.calls = Append(@, Call("bookSlot", FALSE, i, "",
                                                TRUE, AdminPanel.slots))]
       \/ \E e \in FetchErrors :
            /\ AdminPanel' =
                   [AdminPanel EXCEPT
                       !.bookingLoading = TRUE,
                       !.calls = Append(@, Call("bookSlot", FALSE, 0, e,
                                                TRUE, AdminPanel.slots))]
            /\ UNCHANGED backend

\* AdminPanel.jsx:68-75, 81-83: api.bookSlot has returned
AdminBookResolved(k) ==
    /\ k \in DOMAIN AdminPanel.calls
    /\ AdminPanel.calls[k].op = "bookSlot"
    /\ Resolved(AdminPanel.calls[k])
    /\ UNCHANGED StudentBooking
    /\ LET c == AdminPanel.calls[k]
           result == reqs[c.req].res
           settled == [AdminPanel EXCEPT !.bookingLoading = FALSE, !.calls = Remove(@, k)]
       IN IF result.success
          THEN AdminLoadSlots([settled EXCEPT !.modalOpen = FALSE,
                                              !.snackbar = "Student booked successfully!"],
                              FALSE, TRUE, c.slots)
          ELSE /\ AdminPanel' = [settled EXCEPT !.snackbar = result.message]
               /\ UNCHANGED backend

\* AdminPanel.jsx:76-83: api.bookSlot has thrown
AdminBookRejected(k) ==
    /\ k \in DOMAIN AdminPanel.calls
    /\ AdminPanel.calls[k].op = "bookSlot"
    /\ ErrorOf(AdminPanel.calls[k]) # ""
    /\ AdminPanel' =
           [AdminPanel EXCEPT
               !.bookingLoading = FALSE,
               !.snackbar = IF ErrorOf(AdminPanel.calls[k]) = "431"
                            THEN "Request headers too large"
                            ELSE "Error booking student",
               !.calls = Remove(@, k)]
    /\ UNCHANGED <<backend, StudentBooking>>

\* AdminPanel.jsx:98-100, 164-179: a click on the button of a slot, "Unsuspend"
\* on a slot shown suspended, else "Suspend", which is disabled while the
\* slot has students
openSuspendDialog(k) ==
    /\ AdminPanel.mounted
    /\ k \in DOMAIN AdminPanel.slots
    /\ AdminPanel.slots[k].hour \in FrontendHours
    /\ ~AdminPanel.suspendDialog.open
    /\ isSuspended(AdminPanel.slots[k]) \/ AdminPanel.slots[k].students = <<>>
    /\ AdminPanel' =
           [AdminPanel EXCEPT
               !.suspendDialog =
                   [open |-> TRUE, slot |-> <<AdminPanel.slots[k]>>,
                    action |-> IF isSuspended(AdminPanel.slots[k])
                               THEN "unsuspend" ELSE "suspend"]]
    /\ UNCHANGED <<backend, StudentBooking>>

\* AdminPanel.jsx:103-131: a click on the confirming button of the dialog.
\* api.js defines no suspendSlot: the call at :117 throws a TypeError before
\* any request is made, and the catch at :127-130 shows its message.
handleSuspendConfirmed ==
    /\ AdminPanel.suspendDialog.open
    /\ LET slot == AdminPanel.suspendDialog.slot[1]
           action == AdminPanel.suspendDialog.action
           closed == [AdminPanel EXCEPT
                         !.suspendDialog = [open |-> FALSE, slot |-> <<>>, action |-> ""]]
       IN IF action = "suspend" /\ Len(slot.students) > 0
          THEN AdminPanel' = [closed EXCEPT !.snackbar = "Cannot suspend slot with students"]
          ELSE /\ "suspendSlot" \notin DrivingSchoolAPI
               /\ AdminPanel' = [closed EXCEPT !.snackbar = "api.suspendSlot is not a function"]
    /\ UNCHANGED <<backend, StudentBooking>>

\* ------------------------------------------------------------------ specifications
\* Requests handled one at a time, every store query succeeding.
Next ==
    \/ \E body \in BookBodies : SeqReady(1) /\ BookReceive(1, body) /\ UNCHANGED frontend
    \/ BookExisting(1, TRUE) /\ UNCHANGED frontend
    \/ BookInsert(1, TRUE) /\ UNCHANGED frontend
    \/ BookRows(1, TRUE) /\ UNCHANGED frontend
    \/ \E body \in DeleteBodies : SeqReady(1) /\ DeleteReceive(1, body) /\ UNCHANGED frontend
    \/ DeleteExecute(1, TRUE) /\ UNCHANGED frontend
    \/ DeleteRows(1, TRUE) /\ UNCHANGED frontend
    \/ \E body \in SuspendBodies : SeqReady(1) /\ SuspendReceive(1, body) /\ UNCHANGED frontend
    \/ SuspendExisting(1, TRUE) /\ UNCHANGED frontend
    \/ \E query \in DailyQueries : SeqReady(1) /\ DailyReceive(1, query) /\ UNCHANGED frontend
    \/ DailyRows(1, TRUE) /\ UNCHANGED frontend

Spec == Init /\ [][Next]_vars

\* Requests handled concurrently: a request is received while others are
\* suspended at their awaited queries, and the awaited queries return in any order.
NextConc ==
    \/ \E i \in Slots, body \in ConcBookBodies : ConcReady(i) /\ BookReceive(i, body) /\ UNCHANGED frontend
    \/ \E i \in Slots : BookExisting(i, TRUE) /\ UNCHANGED frontend
    \/ \E i \in Slots : BookInsert(i, TRUE) /\ UNCHANGED frontend
    \/ \E i \in Slots : BookRows(i, TRUE) /\ UNCHANGED frontend
    \/ \E i \in Slots, body \in ConcDeleteBodies : ConcReady(i) /\ DeleteReceive(i, body) /\ UNCHANGED frontend
    \/ \E i \in Slots : DeleteExecute(i, TRUE) /\ UNCHANGED frontend
    \/ \E i \in Slots : DeleteRows(i, TRUE) /\ UNCHANGED frontend
    \/ \E i \in Slots, body \in ConcSuspendBodies : ConcReady(i) /\ SuspendReceive(i, body) /\ UNCHANGED frontend
    \/ \E i \in Slots : SuspendExisting(i, TRUE) /\ UNCHANGED frontend

SpecConc == Init /\ [][NextConc]_vars

\* Concurrent CreateBooking requests of five students for one slot.
NextRace ==
    \/ \E i \in Slots, body \in RaceBookBodies : ConcReady(i) /\ BookReceive(i, body) /\ UNCHANGED frontend
    \/ \E i \in Slots : BookExisting(i, TRUE) /\ UNCHANGED frontend
    \/ \E i \in Slots : BookInsert(i, TRUE) /\ UNCHANGED frontend
    \/ \E i \in Slots : BookRows(i, TRUE) /\ UNCHANGED frontend

SpecRace == Init /\ [][NextRace]_vars

\* A CreateBooking and a SetSuspension(suspend) on the same slot, interleaved
\* at their awaited queries.
NextBookSuspend ==
    \/ \E i \in Slots, body \in ConcBookBodies : ConcReady(i) /\ BookReceive(i, body) /\ UNCHANGED frontend
    \/ \E i \in Slots : BookExisting(i, TRUE) /\ UNCHANGED frontend
    \/ \E i \in Slots : BookInsert(i, TRUE) /\ UNCHANGED frontend
    \/ \E i \in Slots : BookRows(i, TRUE) /\ UNCHANGED frontend
    \/ \E i \in Slots, body \in RaceSuspendBodies : ConcReady(i) /\ SuspendReceive(i, body) /\ UNCHANGED frontend
    \/ \E i \in Slots : SuspendExisting(i, TRUE) /\ UNCHANGED frontend

SpecBookSuspend == Init /\ [][NextBookSuspend]_vars

\* CreateBooking requests handled one at a time by a server that started on
\* persisted stores.
NextPersisted ==
    \/ \E body \in RaceBookBodies : SeqReady(1) /\ BookReceive(1, body) /\ UNCHANGED frontend
    \/ BookExisting(1, TRUE) /\ UNCHANGED frontend
    \/ BookInsert(1, TRUE) /\ UNCHANGED frontend
    \/ BookRows(1, TRUE) /\ UNCHANGED frontend

SpecPersisted == InitPersisted /\ [][NextPersisted]_vars

\* GET /admin/daily on a server that started on loaded lists: computeSlots
\* applied to every list of LoadedLists.
NextLoaded ==
    \E query \in DailyQueries : SeqReady(1) /\ DailyReceive(1, query) /\ UNCHANGED frontend

SpecLoaded == InitLoaded /\ [][NextLoaded]_vars

\* Requests with a missing field arriving, one at a time, at a server that
\* started on persisted stores and also takes bookings.
NextValidation ==
    \/ \E body \in RaceBookBodies \cup InvalidBookBodies : SeqReady(1) /\ BookReceive(1, body) /\ UNCHANGED frontend
    \/ BookExisting(1, TRUE) /\ UNCHANGED frontend
    \/ BookInsert(1, TRUE) /\ UNCHANGED frontend
    \/ BookRows(1, TRUE) /\ UNCHANGED frontend
    \/ \E body \in InvalidDeleteBodies : SeqReady(1) /\ DeleteReceive(1, body) /\ UNCHANGED frontend
    \/ \E body \in InvalidSuspendBodies : SeqReady(1) /\ SuspendReceive(1, body) /\ UNCHANGED frontend

SpecValidation == InitPersisted /\ [][NextValidation]_vars

\* Requests handled one at a time while any awaited store query may throw.
NextFail ==
    \/ \E body \in RaceBookBodies : SeqReady(1) /\ BookReceive(1, body) /\ UNCHANGED frontend
    \/ \E ok \in BOOLEAN : BookExisting(1, ok) /\ UNCHANGED frontend
    \/ \E ok \in BOOLEAN : BookInsert(1, ok) /\ UNCHANGED frontend
    \/ \E ok \in BOOLEAN : BookRows(1, ok) /\ UNCHANGED frontend
    \/ \E body \in ConcDeleteBodies : SeqReady(1) /\ DeleteReceive(1, body) /\ UNCHANGED frontend
    \/ \E ok \in BOOLEAN : DeleteExecute(1, ok) /\ UNCHANGED frontend
    \/ \E ok \in BOOLEAN : DeleteRows(1, ok) /\ UNCHANGED frontend
    \/ \E body \in ConcSuspendBodies : SeqReady(1) /\ SuspendReceive(1, body) /\ UNCHANGED frontend
    \/ \E ok \in BOOLEAN : SuspendExisting(1, ok) /\ UNCHANGED frontend
    \/ \E query \in DailyQueries : SeqReady(1) /\ DailyReceive(1, query) /\ UNCHANGED frontend
    \/ \E ok \in BOOLEAN : DailyRows(1, ok) /\ UNCHANGED frontend

SpecFail == Init /\ [][NextFail]_vars

\* The server without a relational store (initDB failed): requests arrive
\* in any order and any number of them may be pending on the event loop.
InitMemory == Init /\ DB_CONNECTED = FALSE

NextMemory ==
    \/ \E i \in Slots, body \in RaceBookBodies : ConcReady(i) /\ BookReceive(i, body) /\ UNCHANGED frontend
    \/ \E i \in Slots, body \in DeleteBodies : ConcReady(i) /\ DeleteReceive(i, body) /\ UNCHANGED frontend
    \/ \E i \in Slots, body \in ConcSuspendBodies : ConcReady(i) /\ SuspendReceive(i, body) /\ UNCHANGED frontend

SpecMemory == InitMemory /\ [][NextMemory]_vars

\* Bookings for hours inside and outside the slot list, and daily requests,
\* handled one at a time.
NextOutside ==
    \/ \E body \in OutsideBookBodies : SeqReady(1) /\ BookReceive(1, body) /\ UNCHANGED frontend
    \/ BookExisting(1, TRUE) /\ UNCHANGED frontend
    \/ BookInsert(1, TRUE) /\ UNCHANGED frontend
    \/ BookRows(1, TRUE) /\ UNCHANGED frontend
    \/ \E query \in DailyQueries : SeqReady(1) /\ DailyReceive(1, query) /\ UNCHANGED frontend
    \/ DailyRows(1, TRUE) /\ UNCHANGED frontend

SpecOutside == Init /\ [][NextOutside]_vars

\* The student's page on a server without a relational store that also
\* receives suspensions from elsewhere: the component mounts, polls, the
\* student selects and books.
DirectSuspendBodies == [date : {Today}, slotId : FrontendHours, action : {"suspend", "unsuspend"}]

NextStudent ==
    \/ StudentMount
    \/ StudentTick
    \/ \E k \in 1..MaxCalls : StudentLoadResolved(k)
    \/ \E k \in 1..MaxCalls : StudentLoadRejected(k)
    \/ \E k \in 1..Len(HOURS) : handleSlotSelect(k)
    \/ \E name \in FrontendNames : handleBookSlot(name)
    \/ \E k \in 1..MaxCalls : StudentBookResolved(k)
    \/ \E k \in 1..MaxCalls : StudentBookRejected(k)
    \/ StudentReload
    \/ \E i \in Slots, body \in DirectSuspendBodies : Open(i) /\ SuspendReceive(i, body) /\ UNCHANGED frontend

SpecStudent == InitMemory /\ [][NextStudent]_vars

\* The administrator's page on a server without a relational store: the
\* component mounts, polls, the administrator books students and suspends slots.
NextAdmin ==
    \/ AdminMount
    \/ AdminTick
    \/ \E k \in 1..MaxCalls : AdminLoadResolved(k)
    \/ \E k \in 1..MaxCalls : AdminLoadRejected(k)
    \/ \E k \in 1..Len(HOURS) : openModal(k)
    \/ \E name \in FrontendNames : handleBooking(name)
    \/ \E k \in 1..MaxCalls : AdminBookResolved(k)
    \/ \E k \in 1..MaxCalls : AdminBookRejected(k)
    \/ \E k \in 1..Len(HOURS) : openSuspendDialog(k)
    \/ handleSuspendConfirmed

SpecAdmin == InitMemory /\ [][NextAdmin]_vars

\* ------------------------------------------------------------------ properties
HourSet == {HOURS[k] : k \in 1..Len(HOURS)}

\* The bookings of (date, hour) in the store the handlers use.
StoredRows(date, hour) ==
    IF DB_CONNECTED THEN SelectByDateHour(date, hour)
    ELSE RowsOfHour(MemoryRows(date), hour)

Booked(date, hour) == Len(StoredRows(date, hour))

Suspended(date, hour) == hour \in inMemorySuspensions[date]

HasStudent(rows, student_name) ==
    \E k \in 1..Len(rows) : rows[k].student_name = student_name

\* The bookings of a day in the store the handlers use.
DayRows(date) == IF DB_CONNECTED THEN SelectByDate(date) ELSE MemoryRows(date)

\* The rows of a list that are bookings of an hour, whichever way the hour is
\* written, and the number of times a name occurs in a list of names.
RowsAt(rows, hour) == {k \in 1..Len(rows) : HourNumber(rows[k].hour) = HourNumber(hour)}

Occurrences(names, n) == Cardinality({k \in 1..Len(names) : names[k] = n})

\* The rows of a list other than the bookings of (date, hour, student_name);
\* the rows of an in-memory list belong to the day the list is kept under.
OtherRows(rows, listDate, date, hour, student_name) ==
    LET Test(b) == ~(/\ listDate = date
                     /\ HourNumber(b.hour) = HourNumber(hour)
                     /\ b.student_name = student_name)
    IN SelectSeq(rows, Test)

OtherTableRows(rows, date, hour, student_name) ==
    LET Test(b) == ~(/\ b.date = date
                     /\ HourNumber(b.hour) = HourNumber(hour)
                     /\ b.student_name = student_name)
    IN SelectSeq(rows, Test)

\* The sum of booked over a slot list.
RECURSIVE SumBooked(_)
SumBooked(slots) ==
    IF slots = <<>> THEN 0 ELSE Head(slots).booked + SumBooked(Tail(slots))

\* A request whose body passed validation.
Valid(r) == r.date # "" /\ r.hourNorm # "" /\ (r.op = "suspend" \/ r.student_name # "")

\* The request in service has not yet reached its own write to the store:
\* the step receives it or resumes it at its first awaited query.
BeforeWrite(r) == r.pc \in {"idle", "done", "book_existing"}

Answered(r, status, success, message) ==
    /\ r.pc = "done"
    /\ r.res.status = status
    /\ r.res.success = success
    /\ r.res.message = message

\* C1: with requests handled one at a time from an empty store, no
\* (day, hour) ever holds more than 4 bookings, in the table or in memory.
C1_CapacityRespected ==
    \A d \in Dates, h \in HourSet :
        /\ Len(SelectByDateHour(d, h)) <= 4
        /\ Len(RowsOfHour(MemoryRows(d), h)) <= 4

\* A slot holds 4 bookings and a CreateBooking of a fifth student was answered.
C1_Witness ==
    \E d \in Dates, h \in HourSet :
        /\ Booked(d, h) = 4
        /\ reqs[1].op = "book" /\ reqs[1].pc = "done"
        /\ reqs[1].date = d /\ reqs[1].hourNorm = h
        /\ ~HasStudent(StoredRows(d, h), reqs[1].student_name)

\* C2: with the relational store connected and CreateBooking requests
\* interleaved at their awaited queries, no (day, hour) holds more than 4 rows.
C2_CapacityUnderRace ==
    DB_CONNECTED => \A d \in Dates, h \in HourSet : Len(SelectByDateHour(d, h)) <= 4

\* C3: with requests handled one at a time, a suspended (day, hour) has no
\* stored booking.
C3_SuspendedIsEmpty ==
    \A d \in Dates, h \in HourSet :
        Suspended(d, h) =>
            /\ Len(SelectByDateHour(d, h)) = 0
            /\ Len(RowsOfHour(MemoryRows(d), h)) = 0

\* A slot is suspended while another hour of the day holds a booking, and a
\* CreateBooking on the suspended slot has been turned away.
C3_Witness ==
    \E d \in Dates, h \in HourSet, h2 \in HourSet :
        /\ Suspended(d, h) /\ Booked(d, h2) > 0
        /\ reqs[1].op = "book" /\ reqs[1].date = d /\ reqs[1].hourNorm = h
        /\ reqs[1].pc = "done" /\ ~reqs[1].res.success

\* C4: no slot list sent in a response has a slot of hour "12".
C4_NoTheoryHourSlot ==
    \A i \in Slots :
        reqs[i].pc = "done" =>
            \A k \in 1..Len(reqs[i].res.slots) : reqs[i].res.slots[k].hour # "12"

\* C5: a CreateBooking of hour "12" never succeeds and no booking of hour
\* "12" is ever stored.
C5_TheoryHourNeverBooked ==
    /\ \A i \in Slots :
           (reqs[i].op = "book" /\ reqs[i].hourNorm = "12" /\ reqs[i].pc = "done")
               => ~reqs[i].res.success
    /\ \A d \in Dates :
           /\ Len(SelectByDateHour(d, "12")) = 0
           /\ Len(RowsOfHour(MemoryRows(d), "12")) = 0

\* C6: every step of a CreateBooking received on a (day, hour) that holds 4
\* bookings leaves the stores as they were, and its answer is {success:false, "Slot full"}.
C6_FullSlotRejected ==
    [][(/\ reqs'[1].op = "book" /\ Valid(reqs'[1]) /\ BeforeWrite(reqs[1])
        /\ Booked(reqs'[1].date, reqs'[1].hourNorm) >= 4)
       => /\ stores' = stores
          /\ reqs'[1].pc \in {"book_existing", "done"}
          /\ reqs'[1].pc = "done" =>
                 reqs'[1].res = [status |-> 200, success |-> FALSE,
                                 message |-> "Slot full", slots |-> <<>>]]_vars

\* A CreateBooking was answered "Slot full" on a slot that holds 4 bookings.
C6_Witness ==
    /\ reqs[1].op = "book"
    /\ Answered(reqs[1], 200, FALSE, "Slot full")
    /\ Booked(reqs[1].date, reqs[1].hourNorm) = 4

\* C7: every step of a CreateBooking received for a student already booked in
\* the (day, hour), on a slot neither suspended nor full, leaves the stores as
\* they were, and its answer is a failure, "Student already booked".
C7_DuplicateRejected ==
    [][(/\ reqs'[1].op = "book" /\ Valid(reqs'[1]) /\ BeforeWrite(reqs[1])
        /\ HasStudent(StoredRows(reqs'[1].date, reqs'[1].hourNorm), reqs'[1].student_name)
        /\ ~Suspended(reqs'[1].date, reqs'[1].hourNorm)
        /\ Booked(reqs'[1].date, reqs'[1].hourNorm) < 4)
       => /\ stores' = stores
          /\ reqs'[1].pc \in {"book_existing", "done"}
          /\ reqs'[1].pc = "done" =>
                 reqs'[1].res = [status |-> 200, success |-> FALSE,
                                 message |-> "Student already booked", slots |-> <<>>]]_vars

\* A CreateBooking of a student already in the slot was answered.
C7_Witness ==
    /\ reqs[1].op = "book"
    /\ Answered(reqs[1], 200, FALSE, "Student already booked")
    /\ HasStudent(StoredRows(reqs[1].date, reqs[1].hourNorm), reqs[1].student_name)
    /\ Booked(reqs[1].date, reqs[1].hourNorm) < 4

\* C8: a CreateBooking on a suspended (day, hour) is answered
\* {success:false, "Slot is suspended"} and leaves the stores as they were.
C8_SuspendedRejected ==
    [][(/\ reqs'[1].op = "book" /\ Valid(reqs'[1])
        /\ Suspended(reqs'[1].date, reqs'[1].hourNorm))
       => /\ stores' = stores
          /\ reqs'[1].res = [status |-> 200, success |-> FALSE,
                             message |-> "Slot is suspended", slots |-> <<>>]
          /\ reqs'[1].pc = "done"]_vars

\* A CreateBooking was answered "Slot is suspended".
C8_Witness ==
    /\ reqs[1].op = "book"
    /\ Answered(reqs[1], 200, FALSE, "Slot is suspended")
    /\ Suspended(reqs[1].date, reqs[1].hourNorm)

\* C9: every step of a suspend request on a (day, hour) that holds a booking
\* leaves the stores as they were and its answer is a failure; and a
\* (day, hour) enters the suspension set only from a state with no booking.
C9_OccupiedNotSuspended ==
    [][/\ (/\ reqs'[1].op = "suspend" /\ reqs'[1].action = "suspend" /\ Valid(reqs'[1])
           /\ Booked(reqs'[1].date, reqs'[1].hourNorm) > 0)
          => /\ stores' = stores
             /\ reqs'[1].pc \in {"suspend_existing", "done"}
             /\ reqs'[1].pc = "done" => ~reqs'[1].res.success
       /\ \A d \in Dates, h \in HourSet :
              (h \in inMemorySuspensions'[d] /\ h \notin inMemorySuspensions[d])
                  => Booked(d, h) = 0]_vars

\* A suspend request on a full slot was turned away.
C9_Witness ==
    /\ reqs[1].op = "suspend" /\ reqs[1].action = "suspend"
    /\ Answered(reqs[1], 200, FALSE, "Cannot suspend slot with existing students")
    /\ Booked(reqs[1].date, reqs[1].hourNorm) = 4

C11_SuspendedIsEmptyUnderRace ==
    DB_CONNECTED =>
        \A d \in Dates, h \in HourSet :
            Suspended(d, h) => Len(SelectByDateHour(d, h)) = 0

\* C12: every step of a DeleteBooking for a (day, hour, student_name) that has
\* no stored booking leaves the stored bookings and the suspension set as they
\* were, and its answer is success:true with the slot list of the day; and
\* once a DeleteBooking is answered with success its booking is not stored,
\* so that the same request issued again changes nothing.
C12_DeleteAbsentIsNoOp ==
    [][/\ (/\ reqs'[1].op = "delete" /\ Valid(reqs'[1])
           /\ ~HasStudent(StoredRows(reqs'[1].date, reqs'[1].hourNorm),
                          reqs'[1].student_name))
          => /\ bookings' = bookings
             /\ inMemoryBookings' = inMemoryBookings
             /\ inMemorySuspensions' = inMemorySuspensions
             /\ reqs'[1].pc \in {"delete_delete", "delete_rows", "done"}
             /\ reqs'[1].pc = "done" =>
                    reqs'[1].res =
                        [status |-> 200, success |-> TRUE, message |-> "Deleted booking",
                         slots |-> computeSlotsOn(DayRows(reqs'[1].date), reqs'[1].date,
                                                  inMemorySuspensions)]
       /\ (reqs'[1].op = "delete" /\ reqs'[1].pc = "done" /\ reqs'[1].res.success)
          => (~HasStudent(StoredRows(reqs[1].date, reqs[1].hourNorm),
                          reqs[1].student_name))']_vars

\* The second request ever received is a DeleteBooking of Bob, who was never
\* booked, on a slot that holds Alice; it was answered with success and Alice
\* is still there.
C12_Witness ==
    /\ received = 2
    /\ reqs[1].op = "delete" /\ reqs[1].student_name = "Bob"
    /\ Answered(reqs[1], 200, TRUE, "Deleted booking")
    /\ Booked(reqs[1].date, reqs[1].hourNorm) = 1
    /\ HasStudent(StoredRows(reqs[1].date, reqs[1].hourNorm), "Alice")

\* C13: a SetSuspension(unsuspend) on a (day, hour) that is not suspended is
\* answered success:true at once and leaves the suspended hours of every day
\* and the stored bookings as they were.
C13_UnsuspendAbsentIsNoOp ==
    [][(/\ reqs'[1].op = "suspend" /\ reqs'[1].action = "unsuspend" /\ Valid(reqs'[1])
        /\ ~Suspended(reqs'[1].date, reqs'[1].hourNorm))
       => /\ inMemorySuspensions' = inMemorySuspensions
          /\ bookings' = bookings
          /\ inMemoryBookings' = inMemoryBookings
          /\ reqs'[1].pc = "done"
          /\ reqs'[1].res = [status |-> 200, success |-> TRUE,
                             message |-> "Slot unsuspended successfully",
                             slots |-> <<>>]]_vars

\* The second request ever received is an unsuspend of hour 09, which was
\* never suspended, on a day whose hour 12 is suspended; it was answered with
\* success and hour 12 is still the only suspended hour.
C13_Witness ==
    /\ received = 2
    /\ reqs[1].op = "suspend" /\ reqs[1].action = "unsuspend" /\ reqs[1].hourNorm = "09"
    /\ Answered(reqs[1], 200, TRUE, "Slot unsuspended successfully")
    /\ inMemorySuspensions[reqs[1].date] = {"12"}

\* C14: with requests handled one at a time, (a) a suspend request on an empty
\* (day, hour) succeeds and suspends it, (b) a CreateBooking on it while it is
\* suspended is answered "Slot is suspended" and changes nothing, (c) an
\* unsuspend request on it succeeds and leaves it open with no booking, and
\* (d) a CreateBooking on an open (day, hour) with no booking is carried
\* through to "Booking confirmed", the student being stored.
C14_SuspendCycle ==
    [][/\ (/\ reqs'[1].op = "suspend" /\ reqs'[1].action = "suspend" /\ Valid(reqs'[1])
           /\ Booked(reqs'[1].date, reqs'[1].hourNorm) = 0)
          => /\ reqs'[1].pc \in {"suspend_existing", "done"}
             /\ reqs'[1].pc = "done" =>
                    /\ Answered(reqs'[1], 200, TRUE, "Slot suspended successfully")
                    /\ reqs'[1].hourNorm \in inMemorySuspensions'[reqs'[1].date]
                    /\ (Booked(reqs[1].date, reqs[1].hourNorm))' = 0
       /\ (/\ reqs'[1].op = "book" /\ Valid(reqs'[1])
           /\ Suspended(reqs'[1].date, reqs'[1].hourNorm))
          => /\ Answered(reqs'[1], 200, FALSE, "Slot is suspended")
             /\ stores' = stores
       /\ (/\ reqs'[1].op = "suspend" /\ reqs'[1].action = "unsuspend" /\ Valid(reqs'[1])
           /\ Suspended(reqs'[1].date, reqs'[1].hourNorm))
          => /\ Answered(reqs'[1], 200, TRUE, "Slot unsuspended successfully")
             /\ reqs'[1].hourNorm \notin inMemorySuspensions'[reqs'[1].date]
             /\ (Booked(reqs[1].date, reqs[1].hourNorm))' = 0
       /\ (/\ reqs'[1].op = "book" /\ Valid(reqs'[1])
           /\ ~Suspended(reqs'[1].date, reqs'[1].hourNorm)
           /\ Booked(reqs'[1].date, reqs'[1].hourNorm) = 0)
          => /\ reqs'[1].pc \in {"book_existing", "book_insert", "book_rows", "done"}
             /\ reqs'[1].pc \in {"book_rows", "done"} =>
                    (HasStudent(StoredRows(reqs[1].date, reqs[1].hourNorm),
                                reqs[1].student_name))'
             /\ reqs'[1].pc = "done" => Answered(reqs'[1], 200, TRUE, "Booking confirmed")
       /\ (reqs[1].op = "book" /\ reqs[1].pc = "book_rows")
          => Answered(reqs'[1], 200, TRUE, "Booking confirmed")]_vars

\* After two requests a (day, hour) is suspended and empty and the second
\* request, a CreateBooking on it, was answered "Slot is suspended": the first
\* request suspended the empty slot.
C14_Witness ==
    /\ received = 2
    /\ reqs[1].op = "book"
    /\ Answered(reqs[1], 200, FALSE, "Slot is suspended")
    /\ reqs[1].hourNorm \in inMemorySuspensions[reqs[1].date]
    /\ Booked(reqs[1].date, reqs[1].hourNorm) = 0
    /\ bookings = <<>> /\ \A d \in Dates : MemoryRows(d) = <<>>

\* C15: with requests handled one at a time, (a) a suspend request on a
\* (day, hour) that holds exactly one booking fails and changes nothing,
\* (b) a DeleteBooking of that booking is carried through to success and
\* leaves the (day, hour) with no booking, and (c) a suspend request on the
\* (day, hour) with no booking succeeds and adds the suspension.
C15_SuspendAfterDelete ==
    [][/\ (/\ reqs'[1].op = "suspend" /\ reqs'[1].action = "suspend" /\ Valid(reqs'[1])
           /\ Booked(reqs'[1].date, reqs'[1].hourNorm) = 1)
          => /\ stores' = stores
             /\ reqs'[1].pc \in {"suspend_existing", "done"}
             /\ reqs'[1].pc = "done" =>
                    Answered(reqs'[1], 200, FALSE, "Cannot suspend slot with existing students")
       /\ (/\ reqs'[1].op = "delete" /\ Valid(reqs'[1])
           /\ Booked(reqs'[1].date, reqs'[1].hourNorm) = 1
           /\ HasStudent(StoredRows(reqs'[1].date, reqs'[1].hourNorm), reqs'[1].student_name))
          => /\ reqs'[1].pc \in {"delete_delete", "delete_rows", "done"}
             /\ reqs'[1].pc \in {"delete_rows", "done"} =>
                    (Booked(reqs[1].date, reqs[1].hourNorm))' = 0
             /\ reqs'[1].pc = "done" => Answered(reqs'[1], 200, TRUE, "Deleted booking")
       /\ (reqs[1].op = "delete" /\ reqs[1].pc = "delete_rows")
          => Answered(reqs'[1], 200, TRUE, "Deleted booking")
       /\ (/\ reqs'[1].op = "suspend" /\ reqs'[1].action = "suspend" /\ Valid(reqs'[1])
           /\ Booked(reqs'[1].date, reqs'[1].hourNorm) = 0
           /\ (reqs[1].pc = "suspend_existing" \/ ~DB_CONNECTED))
          => /\ Answered(reqs'[1], 200, TRUE, "Slot suspended successfully")
             /\ inMemorySuspensions'[reqs'[1].date] =
                    inMemorySuspensions[reqs'[1].date] \cup {reqs'[1].hourNorm}]_vars

\* After two requests a (day, hour) holds exactly one booking, is not
\* suspended, and the second request, a suspend of it, was turned away.
C15_Witness ==
    /\ received = 2
    /\ reqs[1].op = "suspend" /\ reqs[1].action = "suspend"
    /\ Answered(reqs[1], 200, FALSE, "Cannot suspend slot with existing students")
    /\ Booked(reqs[1].date, reqs[1].hourNorm) = 1
    /\ reqs[1].hourNorm \notin inMemorySuspensions[reqs[1].date]

\* C16: CreateBooking reports the first failing precondition in the order
\* suspended, full, duplicate: on a suspended (day, hour) the answer is
\* "Slot is suspended" whatever the slot holds; otherwise on a (day, hour)
\* holding 4 bookings it is "Slot full" even for a student already booked;
\* otherwise for a student already booked it is "Student already booked".
C16_CheckOrder ==
    [][(reqs'[1].op = "book" /\ Valid(reqs'[1]) /\ BeforeWrite(reqs[1]))
       => LET d == reqs'[1].date
              h == reqs'[1].hourNorm
              expected == IF Suspended(d, h) THEN "Slot is suspended"
                          ELSE IF Booked(d, h) >= 4 THEN "Slot full"
                          ELSE IF HasStudent(StoredRows(d, h), reqs'[1].student_name)
                          THEN "Student already booked"
                          ELSE "Booking confirmed"
          IN /\ Suspended(d, h) => reqs'[1].pc = "done"
             /\ (reqs'[1].pc = "done" /\ expected # "Booking confirmed")
                    => Answered(reqs'[1], 200, FALSE, expected)
             /\ (reqs'[1].pc = "done" /\ expected = "Booking confirmed")
                    => Answered(reqs'[1], 200, TRUE, expected)]_vars

\* A CreateBooking for a student already booked in a slot that holds 4
\* bookings was answered "Slot full".
C16_Witness ==
    /\ reqs[1].op = "book"
    /\ Answered(reqs[1], 200, FALSE, "Slot full")
    /\ Booked(reqs[1].date, reqs[1].hourNorm) = 4
    /\ HasStudent(StoredRows(reqs[1].date, reqs[1].hourNorm), reqs[1].student_name)
    /\ ~Suspended(reqs[1].date, reqs[1].hourNorm)

\* C17: every slot of a slot list answered by GET /admin/daily has capacity 4,
\* booked = the number of the day's bookings of its hour, available =
\* max(4 - booked, 0), students = the names of exactly those bookings,
\* permanentStudents = the names of those flagged permanent, and suspended =
\* whether its hour is in the day's suspension set.
C17_SlotContents ==
    (reqs[1].op = "daily" /\ reqs[1].pc = "done" /\ reqs[1].res.status = 200) =>
        LET date == reqs[1].date
            rows == DayRows(date)
            slots == reqs[1].res.slots
        IN /\ Len(slots) = Len(HOURS)
           /\ \A j \in 1..Len(slots) :
                  LET s == slots[j]
                      at == RowsAt(rows, s.hour)
                      perm == {k \in at : rows[k].permanent}
                  IN /\ s.capacity = 4
                     /\ s.booked = Cardinality(at)
                     /\ s.available = (IF s.booked < 4 THEN 4 - s.booked ELSE 0)
                     /\ Len(s.students) = Cardinality(at)
                     /\ \A n \in Students :
                            Occurrences(s.students, n) =
                                Cardinality({k \in at : rows[k].student_name = n})
                     /\ Len(s.permanentStudents) = Cardinality(perm)
                     /\ \A n \in Students :
                            Occurrences(s.permanentStudents, n) =
                                Cardinality({k \in perm : rows[k].student_name = n})
                     /\ s.suspended = (s.hour \in inMemorySuspensions[date])

\* A slot list was answered with a suspended slot that holds five bookings,
\* some written "9" and some "09", one of them permanent.
C17_Witness ==
    /\ reqs[1].op = "daily" /\ reqs[1].pc = "done" /\ reqs[1].res.status = 200
    /\ \E j \in 1..Len(reqs[1].res.slots) :
           LET s == reqs[1].res.slots[j]
           IN /\ s.booked = 5 /\ s.available = 0 /\ s.suspended
              /\ Len(s.permanentStudents) = 1
              /\ \E k \in 1..Len(MemoryRows(reqs[1].date)) :
                     MemoryRows(reqs[1].date)[k].hour = "9"

\* C18: with requests handled one at a time, the step that stores the booking
\* of a CreateBooking adds one booking, of its student, to its (day, hour);
\* and the slot list of its answer "Booking confirmed" is that of the stores
\* after the insert: it has exactly one slot of the hour, whose booked is the
\* number of bookings now stored, whose students include the student, and
\* which on a day that was empty is booked = 1, available = 3,
\* students = [student].
C18_FreshSlotsAfterInsert ==
    [][/\ (/\ reqs'[1].op = "book"
           /\ \/ reqs[1].pc = "book_insert" /\ reqs'[1].pc = "book_rows"
              \/ ~DB_CONNECTED /\ reqs'[1].pc = "done" /\ reqs'[1].res.success)
          => /\ ~HasStudent(StoredRows(reqs'[1].date, reqs'[1].hourNorm),
                            reqs'[1].student_name)
             /\ (Booked(reqs[1].date, reqs[1].hourNorm))' =
                    Booked(reqs'[1].date, reqs'[1].hourNorm) + 1
             /\ (Len(DayRows(reqs[1].date)))' = Len(DayRows(reqs'[1].date)) + 1
       /\ (reqs[1].op = "book" /\ reqs[1].pc = "book_rows") => stores' = stores
       /\ (reqs'[1].op = "book" /\ reqs'[1].pc = "done" /\ reqs'[1].res.success)
          => LET slots == reqs'[1].res.slots
                 at == {j \in 1..Len(slots) : slots[j].hour = reqs'[1].hourNorm}
             IN /\ Cardinality(at) = 1
                /\ \A j \in at :
                       /\ slots[j].booked = (Booked(reqs[1].date, reqs[1].hourNorm))'
                       /\ Len(slots[j].students) = slots[j].booked
                       /\ Occurrences(slots[j].students, reqs'[1].student_name) = 1
                       /\ (Len(DayRows(reqs[1].date)))' = 1 =>
                              /\ slots[j].booked = 1
                              /\ slots[j].available = 3
                              /\ slots[j].students = <<reqs'[1].student_name>>]_vars

\* The second request ever received, a CreateBooking of Bob, was answered
\* "Booking confirmed" with a slot of its hour that lists Alice and Bob.
C18_Witness ==
    /\ received = 2
    /\ reqs[1].op = "book" /\ reqs[1].student_name = "Bob"
    /\ Answered(reqs[1], 200, TRUE, "Booking confirmed")
    /\ \E j \in 1..Len(reqs[1].res.slots) :
           /\ reqs[1].res.slots[j].hour = reqs[1].hourNorm
           /\ reqs[1].res.slots[j].booked = 2
           /\ reqs[1].res.slots[j].available = 2
           /\ reqs[1].res.slots[j].students = <<"Alice", "Bob">>

\* C19: every slot list answered by GET /admin/daily is in ascending hour
\* order: "07" first, "17" last, each hour greater than the one before it.
C19_AscendingHourOrder ==
    (reqs[1].op = "daily" /\ reqs[1].pc = "done" /\ reqs[1].res.status = 200) =>
        LET slots == reqs[1].res.slots
        IN /\ slots[1].hour = "07"
           /\ slots[Len(slots)].hour = "17"
           /\ \A j \in 1..(Len(slots) - 1) :
                  HourNumber(slots[j].hour) < HourNumber(slots[j + 1].hour)

\* C20: a CreateBooking or DeleteBooking without date, hour or student_name,
\* and a SetSuspension without date, slotId or action, is answered 400
\* "Missing fields" in the step that receives it, with no awaited store query,
\* and leaves every store as it was.
C20_ValidationFirst ==
    [][(\/ /\ reqs'[1].op \in {"book", "delete"}
           /\ "" \in {reqs'[1].date, reqs'[1].hourNorm, reqs'[1].student_name}
        \/ /\ reqs'[1].op = "suspend"
           /\ "" \in {reqs'[1].date, reqs'[1].hourNorm, reqs'[1].action})
       => /\ stores' = stores
          /\ received' = received + 1
          /\ reqs'[1].pc = "done"
          /\ reqs'[1].res = [status |-> 400, success |-> FALSE,
                             message |-> "Missing fields", slots |-> <<>>]]_vars

\* A DeleteBooking without a date was answered 400 while hour 09 of a day is
\* suspended and holds 4 bookings.
C20_Witness ==
    /\ reqs[1].op = "delete" /\ reqs[1].date = ""
    /\ Answered(reqs[1], 400, FALSE, "Missing fields")
    /\ \E d \in Dates : Suspended(d, "09") /\ Booked(d, "09") = 4

\* C21: a CreateBooking, DeleteBooking or SetSuspension whose relational-store
\* operation fails carries the operation out on the in-memory store instead,
\* which does not fail, so that no such request is answered with an internal
\* error.
C21_FailureFallsBack ==
    \A i \in Slots :
        (reqs[i].op \in {"book", "delete", "suspend"} /\ reqs[i].pc = "done")
            => reqs[i].res.status # 500

\* C22: a request answered with a failure (success:false or an error status)
\* leaves the stores as they were before it: the step that answers it changes
\* no store, and a CreateBooking is not answered with a failure once its own
\* INSERT has stored its row.
C22_FailureLeavesStores ==
    [][(/\ reqs'[1].op \in {"book", "delete", "suspend"}
        /\ reqs'[1].pc = "done" /\ ~reqs'[1].res.success)
       => /\ stores' = stores
          /\ ~(reqs[1].op = "book" /\ reqs[1].pc = "book_rows")]_vars

\* C23: the answers do not depend on the store that serves the request.  The
\* server on the in-memory store answers GET /admin/daily with the slots of
\* every booking accepted and not deleted so far; so must the server on the
\* relational store, also when a query fails and it turns to the fallback:
\* booked of every slot is the number of bookings of its hour that the server
\* holds for the day, in the table and in memory.
C23_SameAnswersOnFallback ==
    (reqs[1].op = "daily" /\ reqs[1].pc = "done" /\ reqs[1].res.status = 200) =>
        \A j \in 1..Len(reqs[1].res.slots) :
            reqs[1].res.slots[j].booked =
                Cardinality(RowsAt(SelectByDate(reqs[1].date), reqs[1].res.slots[j].hour))
                + Cardinality(RowsAt(MemoryRows(reqs[1].date), reqs[1].res.slots[j].hour))

\* C24: without a relational store every book, delete and suspend request is
\* answered in the step that receives it, no handler waiting between its
\* checks and its write; and the in-memory store holds at most 4 bookings per
\* (day, hour), no two bookings of the same (day, hour, student_name), and no
\* booking in a suspended (day, hour).
C24_MemoryModeAtomic ==
    ~DB_CONNECTED =>
        /\ \A i \in Slots : reqs[i].pc \in {"idle", "done"}
        /\ \A d \in Dates, h \in HourSet :
               /\ Cardinality(RowsAt(MemoryRows(d), h)) <= 4
               /\ \A k1, k2 \in RowsAt(MemoryRows(d), h) :
                      MemoryRows(d)[k1].student_name = MemoryRows(d)[k2].student_name
                          => k1 = k2
               /\ h \in inMemorySuspensions[d] => RowsAt(MemoryRows(d), h) = {}

\* Five requests arrived at the server without a relational store: hour 09
\* of a day holds 4 bookings and the CreateBooking of a fifth student was
\* answered "Slot full" in the step that received it.
C24_Witness ==
    /\ ~DB_CONNECTED
    /\ received = 5
    /\ \E d \in Dates :
           /\ Cardinality(RowsAt(MemoryRows(d), "09")) = 4
           /\ reqs[1].op = "book" /\ reqs[1].date = d /\ reqs[1].hourNorm = "09"
           /\ Answered(reqs[1], 200, FALSE, "Slot full")
           /\ \A k \in 1..Len(MemoryRows(d)) :
                  MemoryRows(d)[k].student_name # reqs[1].student_name

\* C25: with requests handled one at a time and store queries that may fail,
\* a CreateBooking goes on to its INSERT only when the table rows of its
\* (day, hour) are fewer than 4 and do not hold its student, and no
\* (day, hour) of the table comes to hold more than 4 rows.
C25_InsertCheckedOnTable ==
    [][/\ (reqs[1].op = "book" /\ reqs[1].pc = "book_existing"
           /\ reqs'[1].pc = "book_insert")
          => /\ Len(SelectByDateHour(reqs[1].date, reqs[1].hourNorm)) < 4
             /\ ~HasStudent(SelectByDateHour(reqs[1].date, reqs[1].hourNorm),
                            reqs[1].student_name)
       /\ \A d \in Dates, h \in HourSet : Len(SelectByDateHour(d, h)') <= 4]_vars

\* C26: every step of a CreateBooking or DeleteBooking on (day, hour, student)
\* leaves the suspensions as they were and leaves, in the table and in
\* memory, the bookings of every other day, hour or student as they were;
\* every step of a SetSuspension on (day, hour) leaves the bookings as they
\* were and the suspension of every other (day, hour) as it was.
C26_Frame ==
    [][\/ stores' = stores
       \/ /\ reqs'[1].op \in {"book", "delete"}
             => /\ inMemorySuspensions' = inMemorySuspensions
                /\ suspensionsFile' = suspensionsFile
                /\ OtherTableRows(bookings', reqs'[1].date, reqs'[1].hourNorm,
                                  reqs'[1].student_name)
                     = OtherTableRows(bookings, reqs'[1].date, reqs'[1].hourNorm,
                                      reqs'[1].student_name)
                /\ \A d \in Dates :
                       OtherRows(inMemoryBookings'[d], d, reqs'[1].date, reqs'[1].hourNorm,
                                 reqs'[1].student_name)
                         = OtherRows(inMemoryBookings[d], d, reqs'[1].date, reqs'[1].hourNorm,
                                     reqs'[1].student_name)
          /\ reqs'[1].op = "suspend"
             => /\ bookings' = bookings
                /\ inMemoryBookings' = inMemoryBookings
                /\ bookingsFile' = bookingsFile
                /\ \A d \in Dates, h \in HourSet :
                       (d # reqs'[1].date \/ h # reqs'[1].hourNorm)
                           => ((h \in inMemorySuspensions'[d]) = (h \in inMemorySuspensions[d]))]_vars

\* The fourth request ever received, a CreateBooking of Alice, was confirmed
\* while Bob is booked in the same slot and on another day and another hour
\* of the day is suspended.
C26_Witness ==
    /\ received = 4
    /\ reqs[1].op = "book" /\ reqs[1].student_name = "Alice"
    /\ Answered(reqs[1], 200, TRUE, "Booking confirmed")
    /\ HasStudent(StoredRows(reqs[1].date, reqs[1].hourNorm), "Bob")
    /\ \E d \in Dates \ {reqs[1].date} : Len(DayRows(d)) = 1
    /\ \E h \in HourSet \ {reqs[1].hourNorm} : h \in inMemorySuspensions[reqs[1].date]

\* C27: every stored booking is visible in the derived slots: the sum of
\* booked over a slot list answered for a day, by GET /admin/daily or with
\* "Booking confirmed", is the number of bookings stored for that day.
C27_EveryBookingVisible ==
    (/\ reqs[1].pc = "done" /\ reqs[1].res.status = 200
     /\ \/ reqs[1].op = "daily"
        \/ reqs[1].op = "book" /\ reqs[1].res.success)
        => SumBooked(reqs[1].res.slots) = Len(DayRows(reqs[1].date))

\* A settled slot load of a component: its call leaves the calls, and the
\* failure counter is 0 after a load that succeeded and one more after a
\* load that failed.
CounterStep(before, after) ==
    \A k \in DOMAIN before.calls :
        (before.calls[k].op = "getSlots" /\ after.calls = Remove(before.calls, k))
            => after.failuresRef = IF Resolved(before.calls[k]) THEN 0
                                   ELSE before.failuresRef + 1

\* The step leaves a new slot load pending that the interval callback of
\* the component has requested.
NewPeriodicLoad(before, after) ==
    /\ Len(after.calls) = Len(before.calls) + 1
    /\ after.calls[Len(after.calls)].op = "getSlots"
    /\ after.calls[Len(after.calls)].periodic

\* The poll of a component stops for good at three failures: a periodic slot
\* load is requested only while the interval is set and the counter is below
\* 3; an interval that was cleared stays cleared; and a counter that stands
\* at 3 or more falls below 3 only when the interval has been cleared.
PollStopsStep(before, after) ==
    /\ NewPeriodicLoad(before, after) => before.intervalRef /\ before.failuresRef < 3
    /\ (before.mounted /\ ~before.intervalRef) => ~after.intervalRef
    /\ (before.failuresRef >= 3 /\ before.intervalRef)
           => (after.failuresRef >= 3 \/ ~after.intervalRef)

\* C28: in StudentBooking and in AdminPanel every successful slot load sets
\* the failure counter to 0 and every failed one adds 1 to it, and once the
\* counter has reached 3 the poll is cancelled: the component requests no
\* periodic slot load again.
C28_PollStopsAfterThreeFailures ==
    [][/\ CounterStep(StudentBooking, StudentBooking')
       /\ CounterStep(AdminPanel, AdminPanel')
       /\ PollStopsStep(StudentBooking, StudentBooking')
       /\ PollStopsStep(AdminPanel, AdminPanel')]_vars

\* C29: when the administrator confirms the suspend dialog for a slot without
\* students, the step leaves a suspendSlot call of the api service pending,
\* whose request is the POST /admin/suspend of that slot and action; and the
\* panel changes the suspended mark of a slot only in the step in which such
\* a call has returned.
C29_SuspendGoesToBackend ==
    [][/\ (/\ AdminPanel.suspendDialog.open
           /\ ~AdminPanel'.suspendDialog.open
           /\ AdminPanel.suspendDialog.slot[1].students = <<>>)
          => /\ Len(AdminPanel'.calls) = Len(AdminPanel.calls) + 1
             /\ AdminPanel'.calls[Len(AdminPanel'.calls)].op = "suspendSlot"
       /\ (\E k \in DOMAIN AdminPanel.slots :
               /\ k \in DOMAIN AdminPanel'.slots
               /\ AdminPanel'.slots[k].id = AdminPanel.slots[k].id
               /\ isSuspended(AdminPanel'.slots[k]) # isSuspended(AdminPanel.slots[k]))
          => \E k \in DOMAIN AdminPanel.calls :
                /\ AdminPanel.calls[k].op = "suspendSlot"
                /\ Resolved(AdminPanel.calls[k])
                /\ AdminPanel'.calls = Remove(AdminPanel.calls, k)]_vars

\* C30: when a slot load of StudentBooking returns, every slot the answer of
\* GET /admin/daily reports with suspended = true is in the slots the grid
\* gets, with suspended = true, and is disabled there.
C30_SuspendedSlotDisabledInGrid ==
    [][\A k \in DOMAIN StudentBooking.calls :
          (/\ StudentBooking.calls[k].op = "getSlots"
           /\ Resolved(StudentBooking.calls[k])
           /\ StudentBooking'.calls = Remove(StudentBooking.calls, k)
           /\ StudentBooking'.failuresRef = 0)
          => LET data == reqs[StudentBooking.calls[k].req].res.slots
             IN \A j \in DOMAIN data :
                   data[j].suspended
                     => \E m \in DOMAIN StudentBooking'.slots :
                           /\ StudentBooking'.slots[m].hour = data[j].hour
                           /\ isSuspended(StudentBooking'.slots[m])
                           /\ isDisabled(StudentBooking'.slots[m])]_vars
====
